---- MODULE Spec2Model ----
(***************************************************************************)
(* Model of the DuckDuckGo search server (search_server_duckduck_go.py)    *)
(* and of the Telegram front-end that calls it (mcp_search_bot.py).        *)
(*                                                                         *)
(* Time is a discrete clock in seconds that advances in steps of Quantum.  *)
(* Every coroutine runs atomically between two awaits, as asyncio does.    *)
(***************************************************************************)
EXTENDS Integers, Sequences, FiniteSets

\* ------------------------------------------------------------------ bounds
NumCallers == 2      \* concurrent callers of the one shared limiter
MaxCeiling == 2      \* largest requests_per_minute explored
MaxTicks == 4        \* the clock runs to MaxTicks * Quantum seconds
MaxCalls == 3        \* acquire() calls that get a timestamp appended
Quantum == 20        \* seconds per clock step
MaxEntries == 3      \* .result elements in one response
MaxMaxResults == 2   \* largest max_results explored
MaxSaved == 2        \* report files kept in the model

\* ------------------------------------------------------ program constants
Window == 60         \* timedelta(minutes=1) and the literal 60

Callers == 1..NumCallers
Ceilings == {0 - 1, 0} \cup (1..MaxCeiling)
MaxTime == MaxTicks * Quantum

VARIABLES
    clock,                 \* datetime.now()
    requests_per_minute,   \* RateLimiter.requests_per_minute
    requests,              \* RateLimiter.requests
    pc,                    \* where each caller is in acquire()
    now,                   \* acquire()'s local `now`, per caller
    wake_at,               \* when asyncio.sleep(wait_time) ends, per caller
    prior,                 \* history: authorized calls inside the window when the call began
    authorized             \* history: the calls acquire() returned from, in order

VARIABLES
    s_pc,                  \* where the search tool call is
    max_results,           \* search()'s argument
    markup,                \* response.text: the .result elements, in document order
    results,               \* search()'s local `results`, then its return value
    caught,                \* the except clause that caught a failure, or "none"
    outcome,               \* how search() ended: "returned" or "raised"
    log,                   \* what ctx.info and ctx.error were asked to send
    output                 \* the text the tool returns

VARIABLES
    search_result,         \* handle_query's local `search_result`
    reply,                 \* the last update.message.reply_text
    saved                  \* the files written under report/

limiterVars == <<clock, requests_per_minute, requests, pc, now, wake_at, prior, authorized>>
searchVars == <<s_pc, max_results, markup, results, caught, outcome, log, output>>
botVars == <<search_result, reply, saved>>
vars == <<limiterVars, searchVars, botVars>>

\* ----------------------------------------------------------- RateLimiter

\* line 31-33: the requests younger than one minute, in order
Prune(reqs, t) == SelectSeq(reqs, LAMBDA req : t - req < Window)

AtCeilingOffByOne(reqs, ceiling) == Len(reqs) + 1 >= ceiling
\* line 35
AtCeiling(reqs, ceiling) == Len(reqs) >= ceiling

\* line 37
WaitTime(reqs, t) == Window - (t - reqs[1])

\* history only: the authorized calls that began less than a window before t
Occurred(t) == Cardinality({i \in 1..Len(authorized) : t - authorized[i].entered < Window})

\* what line 41 appends
Stamp(c) == now[c]

Authorize(c, entered, stamp, waited, before) ==
    Append(authorized, [caller |-> c, entered |-> entered, stamp |-> stamp,
                        returned |-> clock, waited |-> waited, prior |-> before])

InFlight == Cardinality({c \in Callers : pc[c] = "sleeping"})

LimiterInit ==
    /\ clock = 0
    /\ requests_per_minute \in Ceilings
    /\ requests = <<>>
    /\ pc = [c \in Callers |-> "idle"]
    /\ now = [c \in Callers |-> 0]
    /\ wake_at = [c \in Callers |-> 0]
    /\ prior = [c \in Callers |-> 0]
    /\ authorized = <<>>

\* time passes
Tick ==
    /\ s_pc # "done"
    /\ clock + Quantum <= MaxTime
    /\ clock' = clock + Quantum
    /\ UNCHANGED <<requests_per_minute, requests, pc, now, wake_at, prior, authorized>>
    /\ UNCHANGED <<searchVars, botVars>>

\* acquire() from its entry to its first await or to its return (lines 29-41)
AcquireStep(c) ==
    /\ pc[c] = "idle"
    /\ Len(authorized) + InFlight < MaxCalls
    /\ LET kept == Prune(requests, clock) IN
       /\ now' = [now EXCEPT ![c] = clock]
       /\ prior' = [prior EXCEPT ![c] = Occurred(clock)]
       /\ IF AtCeiling(kept, requests_per_minute)
          THEN IF kept = <<>>
               THEN \* self.requests[0] on an empty list: IndexError
                    /\ requests' = kept
                    /\ pc' = [pc EXCEPT ![c] = "raised"]
                    /\ UNCHANGED <<wake_at, authorized>>
               ELSE IF WaitTime(kept, clock) > 0
               THEN \* await asyncio.sleep(wait_time)
                    /\ requests' = kept
                    /\ pc' = [pc EXCEPT ![c] = "sleeping"]
                    /\ wake_at' = [wake_at EXCEPT ![c] = clock + WaitTime(kept, clock)]
                    /\ UNCHANGED authorized
               ELSE /\ requests' = Append(kept, clock)
                    /\ pc' = [pc EXCEPT ![c] = "acquired"]
                    /\ authorized' = Authorize(c, clock, clock, FALSE, Occurred(clock))
                    /\ UNCHANGED wake_at
          ELSE /\ requests' = Append(kept, clock)
               /\ pc' = [pc EXCEPT ![c] = "acquired"]
               /\ authorized' = Authorize(c, clock, clock, FALSE, Occurred(clock))
               /\ UNCHANGED wake_at
    /\ UNCHANGED <<clock, requests_per_minute>>

\* a caller that calls acquire() directly
AcquireEnter(c) == AcquireStep(c) /\ UNCHANGED <<searchVars, botVars>>

\* acquire() after its sleep (line 41)
AcquireWake(c) ==
    /\ pc[c] = "sleeping"
    /\ clock >= wake_at[c]
    /\ requests' = Append(requests, Stamp(c))
    /\ pc' = [pc EXCEPT ![c] = "acquired"]
    /\ authorized' = Authorize(c, now[c], Stamp(c), TRUE, prior[c])
    /\ UNCHANGED <<clock, requests_per_minute, now, wake_at, prior>>
    /\ UNCHANGED <<searchVars, botVars>>

\* the caller of acquire() goes on and may call again
Return(c) ==
    /\ pc[c] \in {"acquired", "raised"}
    /\ pc' = [pc EXCEPT ![c] = "idle"]
    /\ UNCHANGED <<clock, requests_per_minute, requests, now, wake_at, prior, authorized>>
    /\ UNCHANGED <<searchVars, botVars>>


\* ------------------------------------------------------ DuckDuckGoSearcher

\* Text is a sequence of tokens; a link is the sequence of its parts.
EntryKinds == {"plain", "redirect", "ad", "notitle", "nolink"}

\* one .result element of the response
Entry(kind) ==
    CASE kind = "plain" ->
           [has_title |-> TRUE, has_a |-> TRUE, title |-> <<"Plain page">>,
            href |-> <<"https://a.example/page">>,
            has_snippet |-> TRUE, snippet |-> <<"about a">>]
      [] kind = "redirect" ->
           [has_title |-> TRUE, has_a |-> TRUE, title |-> <<"Wrapped page">>,
            href |-> <<"//duckduckgo.com/l/?", "uddg=", "https%3A%2F%2Fb.example%2Fpage", "&", "rut=1">>,
            has_snippet |-> FALSE, snippet |-> <<>>]
      [] kind = "ad" ->
           [has_title |-> TRUE, has_a |-> TRUE, title |-> <<"Sponsored">>,
            href |-> <<"//duckduckgo.com/", "y.js", "?ad_domain=c.example">>,
            has_snippet |-> TRUE, snippet |-> <<"buy c">>]
      [] kind = "notitle" ->
           [has_title |-> FALSE, has_a |-> FALSE, title |-> <<>>, href |-> <<>>,
            has_snippet |-> TRUE, snippet |-> <<"orphan">>]
      [] OTHER ->
           [has_title |-> TRUE, has_a |-> FALSE, title |-> <<"Bare title">>, href |-> <<>>,
            has_snippet |-> FALSE, snippet |-> <<>>]

Markups == UNION {[1..n -> EntryKinds] : n \in 0..MaxEntries}
\* the max_results a caller passes; a negative one cannot bound a length
MaxResultsValues == 0..MaxMaxResults

\* lines 70 and 154: max_results when the caller passes none
DefaultMaxResults == 10

RECURSIVE IndexOf(_, _, _)
\* the first place at or after i where tok stands in seq, Len(seq) + 1 if none
IndexOf(seq, tok, i) ==
    IF i > Len(seq) THEN Len(seq) + 1
    ELSE IF seq[i] = tok THEN i ELSE IndexOf(seq, tok, i + 1)

BeforeFirst(seq, tok) == SubSeq(seq, 1, IndexOf(seq, tok, 1) - 1)
AfterFirst(seq, tok) == SubSeq(seq, IndexOf(seq, tok, 1) + 1, Len(seq))

\* urllib.parse.unquote on one part
Unquote(tok) ==
    IF tok = "https%3A%2F%2Fb.example%2Fpage" THEN "https://b.example/page" ELSE tok

IsAdNever(link) == FALSE
\* line 108: "y.js" in link
IsAd(link) == \E i \in 1..Len(link) : link[i] = "y.js"

\* line 112
IsRedirect(link) ==
    /\ Len(link) >= 2
    /\ link[1] = "//duckduckgo.com/l/?"
    /\ link[2] = "uddg="

\* line 113: unquote(link.split("uddg=")[1].split("&")[0])
CleanLink(link) ==
    IF IsRedirect(link)
    THEN LET piece == BeforeFirst(BeforeFirst(AfterFirst(link, "uddg="), "uddg="), "&")
         IN  [i \in 1..Len(piece) |-> Unquote(piece[i])]
    ELSE link

\* line 127
ReachedMax(rs, m) == Len(rs) >= m

RECURSIVE Scan(_, _, _, _)
\* lines 95-128: the loop over soup.select(".result"), from element i on
Scan(mk, i, m, rs) ==
    IF i > Len(mk) THEN rs
    ELSE LET e == Entry(mk[i]) IN
         IF ~e.has_title THEN Scan(mk, i + 1, m, rs)
         ELSE IF ~e.has_a THEN Scan(mk, i + 1, m, rs)
         ELSE IF IsAd(e.href) THEN Scan(mk, i + 1, m, rs)
         ELSE LET grown == Append(rs, [src |-> i,
                                       title |-> e.title,
                                       link |-> CleanLink(e.href),
                                       snippet |-> IF e.has_snippet THEN e.snippet ELSE <<>>,
                                       position |-> Len(rs) + 1])
              IN  IF ReachedMax(grown, m) THEN grown ELSE Scan(mk, i + 1, m, grown)

\* lines 94-128
Extract(mk, m) == Scan(mk, 1, m, <<>>)

Str(n) == <<"0", "1", "2", "3", "4", "5", "6", "7", "8", "9">>[n + 1]

NoResultsAdvisory == <<"No results were found for your search query.">>

RECURSIVE Blocks(_, _)
\* lines 61-65
Blocks(rs, i) ==
    IF i > Len(rs) THEN <<>>
    ELSE <<Str(rs[i].position), ".">> \o rs[i].title \o <<"URL:">> \o rs[i].link
         \o <<"Summary:">> \o rs[i].snippet \o <<"">> \o Blocks(rs, i + 1)

\* lines 53-67
format_results_for_llm(rs) ==
    IF rs = <<>> THEN NoResultsAdvisory
    ELSE <<"Found", Str(Len(rs)), "search results:">> \o Blocks(rs, 1)

\* line 168
ToolErrorText == <<"An error occurred while searching:">>

\* what can go wrong between acquire() and the return of search()
Faults == {"none", "info", "timeout", "http", "parse", "info_found"}

\* the message each except clause logs (lines 134, 137, 140)
HandlerMessage(exc) ==
    CASE exc = "TimeoutException" -> "Search request timed out"
      [] exc = "HTTPError" -> "HTTP error occurred"
      [] OTHER -> "Unexpected error during search"

SearchInit ==
    /\ s_pc = "idle"
    /\ max_results = DefaultMaxResults
    /\ markup = <<>>
    /\ results = <<>>
    /\ caught = "none"
    /\ outcome = "none"
    /\ log = <<>>
    /\ output = <<>>

\* the tool is called: search() runs to acquire()'s first await or return (line 73)
SearchBegin(m) ==
    /\ s_pc = "idle"
    /\ AcquireStep(1)
    /\ s_pc' = "acquire"
    /\ max_results' = m
    /\ UNCHANGED <<markup, results, caught, outcome, log, output, botVars>>

\* acquire() returned: lines 75-131, with the failure (if any) that ends them,
\* and, when search() returns its list, the tool's return (line 165).
\* `if not soup` (line 90) is never true of a BeautifulSoup object.
SearchRequest(fault, mk) ==
    /\ s_pc = "acquire"
    /\ pc[1] = "acquired"
    /\ pc' = [pc EXCEPT ![1] = "idle"]
    /\ fault = "none" \/ mk = <<>>
    /\ CASE fault = "info" ->
              /\ s_pc' = "caught" /\ caught' = "Exception"
              /\ UNCHANGED <<markup, results, log, outcome, output>>
         [] fault = "timeout" ->
              /\ s_pc' = "caught" /\ caught' = "TimeoutException"
              /\ log' = Append(log, <<"info", "Searching DuckDuckGo for">>)
              /\ UNCHANGED <<markup, results, outcome, output>>
         [] fault = "http" ->
              /\ s_pc' = "caught" /\ caught' = "HTTPError"
              /\ log' = Append(log, <<"info", "Searching DuckDuckGo for">>)
              /\ UNCHANGED <<markup, results, outcome, output>>
         [] fault = "parse" ->
              /\ s_pc' = "caught" /\ caught' = "Exception"
              /\ log' = Append(log, <<"info", "Searching DuckDuckGo for">>)
              /\ UNCHANGED <<markup, results, outcome, output>>
         [] fault = "info_found" ->
              \* the list that was built is lost with the frame
              /\ s_pc' = "caught" /\ caught' = "Exception"
              /\ log' = Append(log, <<"info", "Searching DuckDuckGo for">>)
              /\ UNCHANGED <<markup, results, outcome, output>>
         [] OTHER ->
              /\ s_pc' = "done" /\ caught' = "none"
              /\ markup' = mk
              /\ results' = Extract(mk, max_results)
              /\ outcome' = "returned"
              /\ output' = format_results_for_llm(Extract(mk, max_results))
              /\ log' = log \o <<(<<"info", "Searching DuckDuckGo for">>),
                                 (<<"info", "Successfully found">>)>>
    /\ UNCHANGED <<clock, requests_per_minute, requests, now, wake_at, prior, authorized>>
    /\ UNCHANGED <<max_results, botVars>>

\* whatever the network, the parser and the logging context do
SearchRespond ==
    /\ s_pc = "acquire"
    /\ pc[1] = "acquired"
    /\ \E fault \in Faults, mk \in Markups : SearchRequest(fault, mk)

\* an except clause of search(): ctx.error, then return [] (lines 133-142),
\* and the tool's return (lines 165-168)
SearchHandler(log_ok) ==
    /\ s_pc = "caught"
    /\ s_pc' = "done"
    /\ IF log_ok
       THEN /\ log' = Append(log, <<"error", HandlerMessage(caught)>>)
            /\ results' = <<>>
            /\ outcome' = "returned"
            /\ output' = format_results_for_llm(<<>>)
       ELSE \* ctx.error raised inside the handler: search() raises, the tool catches
            /\ outcome' = "raised"
            /\ output' = ToolErrorText
            /\ UNCHANGED <<log, results>>
    /\ UNCHANGED <<limiterVars, max_results, markup, caught, botVars>>

\* the call is over: its locals are gone
SearchFinish ==
    /\ s_pc = "done"
    /\ s_pc' = "idle"
    /\ max_results' = DefaultMaxResults
    /\ markup' = <<>>
    /\ results' = <<>>
    /\ caught' = "none"
    /\ outcome' = "none"
    /\ log' = <<>>
    /\ output' = <<>>
    /\ UNCHANGED <<limiterVars, botVars>>

NextSearch ==
    \/ Tick
    \/ \E m \in MaxResultsValues : SearchBegin(m)
    \/ AcquireWake(1)
    \/ SearchRespond
    \/ \E log_ok \in BOOLEAN : SearchHandler(log_ok)
    \/ SearchFinish


\* --------------------------------------------------------------- the bot
\* The Russian texts of mcp_search_bot.py are transliterated; each is split
\* so that its first token is its first word.

\* the texts the server's tool can answer with; the bot passes no max_results
ToolTexts ==
    {format_results_for_llm(Extract(mk, DefaultMaxResults)) : mk \in {m \in Markups : Len(m) <= 1}}
        \cup {ToolErrorText}

\* what the session does when call_search_tool uses it
SessionReplies ==
    {[kind |-> k, text |-> <<>>] :
        k \in {"list_tools raises", "no search tool", "call_tool raises", "no content", "not text"}}
        \cup {[kind |-> "text", text |-> t] : t \in ToolTexts}

MsgToolMissing == <<"Instrument", "'search' ne naiden na servere.">>
MsgEmptyResult == <<"Pustoi", "ili neozhidannyi rezultat ot instrumenta 'search'.">>
MsgCallError == <<"Oshibka", "pri vyzove instrumenta 'search':">>

\* lines 28-40
call_search_tool(session) ==
    CASE session.kind = "list_tools raises" -> MsgCallError \o <<"list_tools">>
      [] session.kind = "no search tool" -> MsgToolMissing
      [] session.kind = "call_tool raises" -> MsgCallError \o <<"call_tool">>
      [] session.kind = "text" -> session.text
      [] OTHER -> MsgEmptyResult

\* the messages a user can send; " " is white space, "/" is punctuation
MessageTexts ==
    {<<>>, <<" ">>, <<"cats">>, <<" ", "cats", " ">>, <<"cats", "/", "dogs">>, <<"dogs", " ">>}

RECURSIVE LStrip(_)
LStrip(text) == IF text # <<>> /\ Head(text) = " " THEN LStrip(Tail(text)) ELSE text

RECURSIVE RStrip(_)
RStrip(text) ==
    IF text # <<>> /\ text[Len(text)] = " " THEN RStrip(SubSeq(text, 1, Len(text) - 1)) ELSE text

\* line 65: str.strip
Strip(text) == RStrip(LStrip(text))

\* lines 48-49: the characters kept in the file name, at most 30
SafeQuery(query) ==
    LET kept == RStrip(SelectSeq(query, LAMBDA ch : ch # "/"))
    IN  SubSeq(kept, 1, IF Len(kept) < 30 THEN Len(kept) ELSE 30)

\* line 50: report-HH-MM-SS-<safe_query>.txt
FileName(query) == <<"report-", Str(clock \div Quantum)>> \o SafeQuery(query) \o <<".txt">>

\* line 71, negated: the text that makes handle_query answer with a failure
IsFailure(text) == text = <<>> \/ text[1] = "Oshibka"

ReplyEmptyQuery == <<"Pozhaluista, vvedite nepustoi zapros.">>
ReplySaveFailed == <<"Oshibka pri sohranenii rezultata.">>
ReplyFound(text, path) == <<"Rezultat poiska:">> \o text \o <<"Sohraneno v:">> \o path
ReplyFailed(text) == <<"Oshibka poiska:">> \o text

BotInit ==
    /\ search_result = <<>>
    /\ reply = <<>>
    /\ saved = {}

\* handle_query (lines 64-78) with call_search_tool and save_result_to_file
HandleQuery(text, session, save_ok) ==
    /\ Cardinality(saved) < MaxSaved
    /\ LET query == Strip(text)
           found == call_search_tool(session)
           path == FileName(query)
       IN  IF query = <<>>
           THEN /\ reply' = ReplyEmptyQuery
                /\ UNCHANGED <<search_result, saved>>
           ELSE /\ search_result' = found
                /\ IF ~IsFailure(found)
                   THEN IF save_ok
                        THEN /\ saved' = {f \in saved : f.name # path}
                                            \cup {[name |-> path, content |-> found]}
                             /\ reply' = ReplyFound(found, path)
                        ELSE /\ reply' = ReplySaveFailed
                             /\ UNCHANGED saved
                   ELSE /\ reply' = ReplyFailed(found)
                        /\ UNCHANGED saved
    /\ UNCHANGED <<limiterVars, searchVars>>

Init == LimiterInit /\ SearchInit /\ BotInit

Next ==
    \/ Tick
    \/ \E c \in Callers : AcquireEnter(c)
    \/ \E c \in Callers : AcquireWake(c)
    \/ \E c \in Callers : Return(c)

Spec == Init /\ [][Next]_vars

\* one caller, one call after another
NextSeq ==
    \/ Tick
    \/ AcquireEnter(1)
    \/ AcquireWake(1)
    \/ Return(1)

SpecSeq == Init /\ [][NextSeq]_vars

\* the chat front-end
NextBot ==
    \E text \in MessageTexts, session \in SessionReplies, save_ok \in BOOLEAN :
        HandleQuery(text, session, save_ok)

\* the bot holds no limiter: its ceiling is pinned
InitBot == Init /\ requests_per_minute = 1

SpecBot == InitBot /\ [][NextBot]_vars

\* one search tool call after another
\* the searcher's own limiter is RateLimiter() with the default ceiling of 30 (line 51),
\* scaled down here to 1: acquire() waits when it is reached and never raises
InitSearch == Init /\ requests_per_minute = 1

SpecSearch == InitSearch /\ [][NextSearch]_vars

\* ------------------------------------------------------------------ claims

\* the calls authorized in the window that ends when call i was authorized
InWindow(i) ==
    {j \in 1..Len(authorized) :
        /\ authorized[j].returned > authorized[i].returned - Window
        /\ authorized[j].returned <= authorized[i].returned}

TrailingWindowBound ==
    \A i \in 1..Len(authorized) : Cardinality(InWindow(i)) <= requests_per_minute

\* C1: with calls made one after another, no trailing window of 60 s holds more
\* authorized calls than the ceiling.
C1_WindowBound == TrailingWindowBound

\* while a caller is suspended in acquire(), no other caller takes a step of acquire()
AtomicAcquire ==
    \A c \in Callers :
        pc[c] = "sleeping" =>
            \A d \in Callers \ {c} : pc[d] \in {"idle", "sleeping"} => pc'[d] = pc[d]

\* C2: under every interleaving a caller's prune-check-append is one atomic step,
\* and the instance never authorizes more than the ceiling in a trailing window.
C2_SerializedBound == [][AtomicAcquire]_vars /\ []TrailingWindowBound

\* C3: search() always returns a list and never raises; after any failure the list
\* is empty and the tool answers with the "no results" advisory.
C3_SearchNeverRaises ==
    s_pc = "done" =>
        /\ outcome = "returned"
        /\ caught # "none" => (results = <<>> /\ output = NoResultsAdvisory)

\* C4: acquire() has no error outcome, whatever the ceiling and the sequence.
C4_AcquireNeverFails == \A c \in Callers : pc[c] # "raised"

\* C5: a call that begins when fewer than the ceiling's number of calls occurred in
\* the last 60 s is not suspended.
C5_NoSuspendBelowCeiling ==
    /\ \A c \in Callers : pc[c] = "sleeping" => prior[c] >= requests_per_minute
    /\ \A i \in 1..Len(authorized) :
           authorized[i].waited => authorized[i].prior >= requests_per_minute

\* a call returned without a wait although earlier calls were in its window
C5_Witness ==
    \E i \in 1..Len(authorized) :
        /\ ~authorized[i].waited
        /\ authorized[i].prior >= 1
        /\ authorized[i].prior < requests_per_minute
        /\ authorized[i].returned = authorized[i].entered

\* an element search() accepts: a title, a link in it, no ad marker
Valid(kind) ==
    LET e == Entry(kind) IN
    e.has_title /\ e.has_a /\ ~(\E i \in 1..Len(e.href) : e.href[i] = "y.js")

\* the places of the valid elements of a markup, in document order
ValidPlaces(mk) == SelectSeq([i \in 1..Len(mk) |-> i], LAMBDA i : Valid(mk[i]))

Sources(rs) == [i \in 1..Len(rs) |-> rs[i].src]
Numbered(rs) == \A i \in 1..Len(rs) : rs[i].position = i
Listed == s_pc = "done" /\ caught = "none"

\* C6: for every max_results, len(results) <= max_results, the positions are
\* 1..len(results), and the results are the first valid entries in document order.
C6_BoundedNumbered ==
    Listed =>
        /\ Len(results) <= max_results
        /\ Numbered(results)
        /\ Sources(results) = SubSeq(ValidPlaces(markup), 1, Len(results))

\* C7: ads and entries without a title or its link are never in the results, take
\* no position and do not count toward max_results: the results are the valid
\* entries, in order, and one is left out only once max_results were accepted.
C7_OnlyValidEntries ==
    Listed =>
        /\ \A i \in 1..Len(results) : Valid(markup[results[i].src])
        /\ Numbered(results)
        /\ Sources(results) = SubSeq(ValidPlaces(markup), 1, Len(results))
        /\ Len(results) < Len(ValidPlaces(markup)) => Len(results) >= max_results

\* a response with an ad, an entry without title and one without link before a
\* valid entry, which is returned at position 1
C7_Witness ==
    /\ Listed
    /\ Len(markup) = MaxEntries
    /\ \E i \in 1..Len(markup) : markup[i] = "ad"
    /\ \E i \in 1..Len(markup) : markup[i] \in {"notitle", "nolink"}
    /\ Len(results) = 1
    /\ results[1].src = Len(markup)
    /\ max_results > Len(results)

\* the texts call_search_tool makes up when the search gave nothing usable
FailureTexts ==
    {MsgToolMissing, MsgEmptyResult, MsgCallError \o <<"list_tools">>, MsgCallError \o <<"call_tool">>}

\* C8: an empty or unexpected tool result, a missing tool and a call error are
\* answered with the failure message, and nothing is saved for them.
C8_FailuresNotSaved ==
    /\ \A f \in saved : f.content \notin FailureTexts
    /\ (search_result \in FailureTexts /\ reply # ReplyEmptyQuery) => reply = ReplyFailed(search_result)

\* C9: after a wait, the appended timestamp is the time the caller resumed.
C9_StampAfterWait ==
    \A i \in 1..Len(authorized) :
        authorized[i].waited => authorized[i].stamp = authorized[i].returned

\* C10: the timestamp sequence is non-decreasing in insertion order, so its first
\* element is the oldest retained request.
C10_Monotonic ==
    \A i \in 1..Len(requests) : \A j \in i..Len(requests) : requests[i] <= requests[j]
====
